---- MODULE Spec2Model ----
(***************************************************************************)
(* A model of neural_net_gradiant_descent.py: the NeuralNetwork class      *)
(* (construction, feedforward, the two unimplemented methods, train) and   *)
(* the driver main.                                                        *)
(*                                                                         *)
(* Numbers.  The program computes in IEEE-754 doubles.  A number is        *)
(* modelled by a record [lo, hi, open] over the integers:                  *)
(*   lo = hi, open = FALSE   exactly the integer lo;                       *)
(*   lo < hi, open = TRUE    some double strictly between lo and hi;       *)
(*   lo < hi, open = FALSE   some double in the closed range (used only    *)
(*                           where the model cannot tell which).           *)
(* Every operator on numbers returns a range that contains the double the  *)
(* program computes, so "certainly" statements below are sound.            *)
(***************************************************************************)
EXTENDS Integers, Sequences, FiniteSets, TLC

VARIABLES
    layer_sizes,      \* the constructor's argument
    weights,          \* self.weights
    biases,           \* self.biases
    velocity_w,       \* self.velocity_w
    velocity_b,       \* self.velocity_b
    training_data,    \* main's list, shared with train (shuffled in place)
    supplied,         \* the list as it was passed to train (history)
    epochs,           \* train's argument
    mini_batch_size,  \* train's argument
    initial_rate,     \* train's learning_rate argument as passed (history)
    learning_rate,    \* train's local learning_rate, a fraction <<num, den>>
    decay,            \* train's argument, a fraction <<num, den>>
    pc,               \* position of the driver
    j,                \* train's epoch counter
    mini_batches,     \* train's local list of mini-batches
    mb,               \* index of the next mini-batch of the inner loop
    gd_calls,         \* gradient_descent calls of the current epoch (history)
    gd_total,         \* number of gradient_descent calls made by train (history)
    shuffles,         \* number of np.random.shuffle calls (history)
    decays,           \* number of learning_rate *= decay executions (history)
    stdout,           \* the lines printed so far
    idx,              \* position of main's final loop
    failure,          \* the exception that ended the run, or NoFailure
    last_call         \* the last call made from outside train and main

vars == <<layer_sizes, weights, biases, velocity_w, velocity_b, training_data,
          supplied, epochs, mini_batch_size, initial_rate, learning_rate,
          decay, pc, j, mini_batches, mb, gd_calls, gd_total, shuffles,
          decays, stdout, idx, failure, last_call>>

net_vars == <<weights, biases, velocity_w, velocity_b>>

-----------------------------------------------------------------------------
(* Bounds of the model *)

MaxN == 3
MaxBatch == 3
MaxEpochs == 2
LongEpochs == 201
NumSeeds == 1

-----------------------------------------------------------------------------
(* Numbers *)

Exact(v) == [lo |-> v, hi |-> v, open |-> FALSE]
Open(l, h) == [lo |-> l, hi |-> h, open |-> TRUE]
Closed(l, h) == [lo |-> l, hi |-> h, open |-> FALSE]

\* the element of a one-element set (used to evaluate a value once)
Only(S) == CHOOSE x \in S : TRUE

Min(S) == CHOOSE x \in S : \A y \in S : x <= y
Max(S) == CHOOSE x \in S : \A y \in S : x >= y

VNeg(a) == [lo |-> -a.hi, hi |-> -a.lo, open |-> a.open]

VAdd(a, b) == [lo |-> a.lo + b.lo, hi |-> a.hi + b.hi, open |-> a.open \/ b.open]

VSub(a, b) == VAdd(a, VNeg(b))

VMul(a, b) ==
    IF a = Exact(0) \/ b = Exact(0) THEN Exact(0)
    ELSE LET P == {a.lo * b.lo, a.lo * b.hi, a.hi * b.lo, a.hi * b.hi}
         IN  [lo |-> Min(P), hi |-> Max(P),
              open |-> \/ a.open /\ b.open
                       \/ a.open /\ b.lo # 0 /\ b.hi # 0
                       \/ b.open /\ a.lo # 0 /\ a.hi # 0]

VScale(k, a) == VMul(Exact(k), a)

\* the number is certainly strictly between 0 and 1
CertainlyInside(a) ==
    /\ a.lo > 0 \/ (a.lo = 0 /\ a.open)
    /\ a.hi < 1 \/ (a.hi = 1 /\ a.open)

\* the number may be strictly between 0 and 1
PossiblyInside(a) == a.hi > 0 /\ a.lo < 1

\* the number is certainly in the closed range 0..1
CertainlyInUnit(a) == a.lo >= 0 /\ a.hi <= 1

\* the exact integer v may equal the number a
MayEqual(v, a) ==
    IF a.open THEN a.lo < v /\ v < a.hi ELSE a.lo <= v /\ v <= a.hi

-----------------------------------------------------------------------------
(* sigmoid, sigmoid_prime *)

\* np.exp(m) is inf for every double m >= ExpOverflow (m > 709.78...)
ExpOverflow == 710
\* 1 + np.exp(-x) rounds to 1.0 for every double x >= ExpAbsorbed
\* (np.exp(-x) <= 2^-53, x >= 36.74)
ExpAbsorbed == 37

\* The outcomes np.exp(m) can have, as far as 1 / (1 + .) can tell them apart:
\*   "inf"     the result overflowed to inf
\*   "tiny"    the result is so small that adding it to 1.0 gives 1.0
\*   "normal"  any other positive finite double
np_exp(m) ==
    {c \in {"inf", "tiny", "normal"} :
        \/ c = "inf" /\ m.hi >= ExpOverflow
        \/ c = "tiny" /\ m.lo <= -ExpAbsorbed
        \/ c = "normal" /\ m.lo <= ExpOverflow - 1 /\ m.hi >= 1 - ExpAbsorbed}

\* sigmoid with the sign of the exponent lost: 1 / (1 + np.exp(x))
sigmoid_sign_lost(x) ==
    LET e == np_exp(x)
    IN  IF e = {"inf"} THEN Exact(0)
        ELSE IF e = {"tiny"} THEN Exact(1)
        ELSE IF e = {"normal"} THEN Open(0, 1)
        ELSE Closed(0, 1)

\* 1 / (1 + np.exp(-x))
sigmoid(x) ==
    LET e == np_exp(VNeg(x))
    IN  IF e = {"inf"} THEN Exact(0)            \* 1 / (1 + inf)
        ELSE IF e = {"tiny"} THEN Exact(1)      \* 1 / 1.0
        ELSE IF e = {"normal"} THEN Open(0, 1)  \* 1 / (a finite double > 1)
        ELSE Closed(0, 1)

\* sigmoid(x) * (1 - sigmoid(x))
sigmoid_prime(x) == VMul(sigmoid(x), VSub(Exact(1), sigmoid(x)))

-----------------------------------------------------------------------------
(* numpy arrays: a column vector is a sequence of numbers, a matrix a        *)
(* sequence of rows.  An operation that numpy refuses yields Raised.         *)

Ok(v) == [err |-> FALSE, v |-> v]
Raised == [err |-> TRUE, v |-> <<>>]

RECURSIVE DotRow(_, _, _)
DotRow(row, a, k) ==
    IF k = 0 THEN Exact(0)
    ELSE VAdd(DotRow(row, a, k - 1), VMul(row[k], a[k]))

\* np.dot(w, a) of an (n_out, n_in) matrix and an (n, 1) column
np_dot(w, a) ==
    IF \A i \in DOMAIN w : Len(w[i]) = Len(a)
    THEN Ok([i \in DOMAIN w |-> DotRow(w[i], a, Len(a))])
    ELSE Raised

\* u + b of two columns, with numpy's broadcasting of a column of length 1
np_add(u, b) ==
    IF Len(u) = Len(b) THEN Ok([i \in DOMAIN u |-> VAdd(u[i], b[i])])
    ELSE IF Len(b) = 1 THEN Ok([i \in DOMAIN u |-> VAdd(u[i], b[1])])
    ELSE IF Len(u) = 1 THEN Ok([i \in DOMAIN b |-> VAdd(u[1], b[i])])
    ELSE Raised

\* np.zeros(shape)
zeros_vec(n) == [i \in 1..n |-> Exact(0)]
zeros_mat(rows, cols) == [i \in 1..rows |-> [k \in 1..cols |-> Exact(0)]]

Rows(w) == Len(w)
Cols(w) == IF Len(w) = 0 THEN 0 ELSE Len(w[1])

-----------------------------------------------------------------------------
(* The process-wide random number generator.  randn can return any double; *)
(* the model draws the k-th number of a stream from RandnValues.           *)

RandnValues == <<1, -1, 2, -2, 1>>

randn(seed, k) == RandnValues[((seed + k) % Len(RandnValues)) + 1]

\* np.sqrt(1.0 / n_in): exactly 1.0 for n_in = 1, otherwise inside (0, 1)
sqrt_inv(n_in) == IF n_in = 1 THEN Exact(1) ELSE Open(0, 1)

initialize_weights_transposed(n_in, n_out, seed) ==
    [i \in 1..n_in |->
        [k \in 1..n_out |->
            VMul(Exact(randn(seed, 3 * i + k)), sqrt_inv(n_in))]]

\* np.random.randn(n_out, n_in) * np.sqrt(1.0 / n_in)
initialize_weights_xavier(n_in, n_out, seed) ==
    [i \in 1..n_out |->
        [k \in 1..n_in |->
            VMul(Exact(randn(seed, 3 * i + k)), sqrt_inv(n_in))]]

\* NeuralNetwork.__init__
NeuralNetwork(sizes, seed) ==
    LET L == Len(sizes) - 1
        w == [l \in 1..L |-> initialize_weights_xavier(sizes[l], sizes[l + 1], seed + l)]
        b == [l \in 1..L |-> [i \in 1..sizes[l + 1] |-> Exact(randn(seed, 2 * l + i))]]
    IN  [weights |-> w,
         biases |-> b,
         velocity_b |-> [l \in 1..L |-> zeros_vec(Len(b[l]))],
         velocity_w |-> [l \in 1..L |-> zeros_mat(Rows(w[l]), Cols(w[l]))]]

\* the network object, as one record
self == [weights |-> weights, biases |-> biases,
         velocity_b |-> velocity_b, velocity_w |-> velocity_w]

-----------------------------------------------------------------------------
(* feedforward *)

\* z = np.dot(w, a) + b of layer l, or Raised
pre_activation(net, a, l) ==
    Only({IF d.err THEN Raised ELSE np_add(d.v, net.biases[l]) :
            d \in {np_dot(net.weights[l], a)}})

\* One iteration of feedforward's loop with z computed into the bias array
\* (b += np.dot(w, a)): the store changes.
layer_step_in_place(st, l) ==
    Only({IF st.err \/ z.err
          THEN [st EXCEPT !.err = TRUE]
          ELSE [net |-> [st.net EXCEPT !.biases[l] = z.v], err |-> FALSE,
                a |-> [i \in DOMAIN z.v |-> sigmoid(z.v[i])], z |-> z.v] :
            z \in {IF st.err THEN Raised ELSE pre_activation(st.net, st.a, l)}})

\* One iteration of feedforward's loop: z = np.dot(w, activations[-1]) + b,
\* a = sigmoid(z).  Both are fresh arrays; the store (net) is left as it was.
layer_step(st, l) ==
    Only({IF st.err \/ z.err
          THEN [st EXCEPT !.err = TRUE]
          ELSE [net |-> st.net, err |-> FALSE,
                a |-> [i \in DOMAIN z.v |-> sigmoid(z.v[i])], z |-> z.v] :
            z \in {IF st.err THEN Raised ELSE pre_activation(st.net, st.a, l)}})

RECURSIVE forward(_, _, _)
forward(net, a, l) ==
    IF l = 0 THEN [net |-> net, err |-> FALSE, a |-> a, z |-> a]
    ELSE Only({layer_step(st, l) : st \in {forward(net, a, l - 1)}})

\* NeuralNetwork.feedforward: [net: the network afterwards, err: it raised,
\* a: the value returned, z: the last pre-activation]
feedforward(net, a) == forward(net, a, Len(net.weights))

\* NeuralNetwork.cost_derivative: output_activations - y
cost_derivative(output_activations, y) ==
    np_add(output_activations, [i \in DOMAIN y |-> VNeg(y[i])])

\* NeuralNetwork.backpropagation: the body is a docstring, the call returns None
backpropagation(net, x, y) == [net |-> net, err |-> FALSE, ret |-> "None"]

\* a gradient_descent that unpacks what backpropagation returns:
\* nabla_b, nabla_w = self.backpropagation(x, y) raises TypeError on None
gradient_descent_unpacking(net, mini_batch, eta, mu) ==
    [net |-> net, err |-> mini_batch # <<>>, ret |-> "None"]

\* NeuralNetwork.gradient_descent: the body is a docstring, the call returns
\* None and leaves the network as it was
gradient_descent(net, mini_batch, eta, mu) ==
    [net |-> net, err |-> FALSE, ret |-> "None"]

\* the default of gradient_descent's parameter mu, 0.9, as a fraction
DefaultMu == <<9, 10>>

-----------------------------------------------------------------------------
(* Training data *)

BigInput == 1000
MidInput == 100

\* the inputs of the one-input data sets
Inputs1 == <<0, 1, BigInput, -BigInput>>

\* The i-th example for a network of the given sizes: an (input, target) tuple
\* object, identified by id.  Two inputs: the rows of main's XOR table.
Example(sizes, i) ==
    LET out == sizes[Len(sizes)]
        b1 == ((i - 1) \div 2) % 2
        b2 == (i - 1) % 2
    IN  IF sizes[1] = 2
        THEN [id |-> i, x |-> <<Exact(b1), Exact(b2)>>,
              y |-> [k \in 1..out |-> Exact((b1 + b2) % 2)]]
        ELSE [id |-> i,
              x |-> [k \in 1..sizes[1] |-> Exact(Inputs1[((i - 1) % Len(Inputs1)) + 1])],
              y |-> [k \in 1..out |-> Exact(i % 2)]]

Dataset(sizes, n) == [i \in 1..n |-> Example(sizes, i)]

\* main's network and the one-layer networks
MainSizes == <<2, 2, 1>>
LayerSizeChoices == {MainSizes, <<1, 1>>, <<1, 2>>}

\* learning rates and decays, as fractions <<numerator, denominator>>
RateChoices == {<<1, 10>>}
DecayChoices == {<<1, 2>>, <<2, 3>>}

-----------------------------------------------------------------------------
(* train's pieces *)

Range(s) == {s[i] : i \in DOMAIN s}

\* np.random.shuffle that draws every position independently
ShufflesWithRepeats(s) == [1..Len(s) -> Range(s)]

\* np.random.shuffle(s): the orders the list can be left in
Shuffles(s) ==
    {t \in [1..Len(s) -> Range(s)] : \A i \in DOMAIN s : \E k \in DOMAIN t : t[k] = s[i]}

\* range(0, n - step + 1, step): the last, shorter mini-batch is dropped
RangeStepFull(n, step) == [i \in 1..(n \div step) |-> (i - 1) * step]

\* range(0, n, step), as the sequence of its values
RangeStep(n, step) == [i \in 1..((n + step - 1) \div step) |-> (i - 1) * step]

\* data[k : k + size] (0-based k, Python's clipping of the upper end)
Slice(data, k, size) ==
    [i \in 1..(Min({k + size, Len(data)}) - Min({k, Len(data)})) |-> data[k + i]]

\* mini-batches that overlap by one example: data[k : k + size + 1]
MiniBatchesOverlapping(data, n, size) ==
    [i \in DOMAIN RangeStep(n, size) |-> Slice(data, RangeStep(n, size)[i], size + 1)]

\* [training_data[k : k + mini_batch_size] for k in range(0, n, mini_batch_size)]
MiniBatches(data, n, size) ==
    [i \in DOMAIN RangeStep(n, size) |-> Slice(data, RangeStep(n, size)[i], size)]

FracMul(a, b) == <<a[1] * b[1], a[2] * b[2]>>
FracEq(a, b) == a[1] * b[2] = b[1] * a[2]

\* learning_rate *= decay, forgotten
DecayedNot(rate, d) == rate

\* learning_rate *= decay
Decayed(rate, d) == FracMul(rate, d)

\* the epochs after which train prints the loss: j % 100 == 0
LogEvery == 100
LogsOnEveryEpoch(e) == TRUE
LogsOn(e) == e % LogEvery = 0

\* losses = [cost_derivative(feedforward(x), y) ** 2 for x, y in training_data]
\* over the first k examples: [net, err, sum, count], np.mean being sum / count
\* one more example added to the losses r of the examples before it
LossesStep(r, ex) ==
    Only({Only({IF r.err \/ c.err
                THEN [r EXCEPT !.err = TRUE, !.net = f.net]
                ELSE [net |-> f.net, err |-> FALSE,
                      sum |-> VAdd(r.sum, DotRow(c.v, c.v, Len(c.v))),
                      count |-> r.count + Len(c.v)] :
                  c \in {IF f.err THEN Raised ELSE cost_derivative(f.a, ex.y)}}) :
            f \in {feedforward(r.net, ex.x)}})

RECURSIVE Losses(_, _, _)
Losses(net, data, k) ==
    IF k = 0 THEN [net |-> net, err |-> FALSE, sum |-> Exact(0), count |-> 0]
    ELSE Only({LossesStep(r, data[k]) : r \in {Losses(net, data, k - 1)}})

NoFailure == "none"

-----------------------------------------------------------------------------
(* The initial states: the network is constructed and train's arguments are *)
(* chosen, as main does; nothing has been called yet.                       *)

\* Short runs over every network and data set.
ShortRun(sizes, n, size, e, d) ==
    /\ sizes \in LayerSizeChoices
    /\ n \in (IF sizes = MainSizes THEN {4} ELSE 0..MaxN)
    /\ size \in 1..(IF sizes = MainSizes THEN MaxBatch + 1 ELSE MaxBatch)
    /\ e \in 0..MaxEpochs
    /\ d \in DecayChoices

\* Long runs (past the second logged epoch) of a one-layer network with a
\* constant learning rate.
LongRun(sizes, n, size, e, d) ==
    /\ sizes = <<1, 1>>
    /\ n \in 1..2
    /\ size \in 1..2
    /\ e \in {k \in 0..LongEpochs : k > MaxEpochs /\ k % LogEvery <= 1}
    /\ d = <<1, 1>>

Init ==
    \E sizes \in LayerSizeChoices, n \in 0..(MaxN + 1), size \in 1..(MaxBatch + 1),
       e \in 0..LongEpochs, d \in DecayChoices \cup {<<1, 1>>},
       seed \in 1..NumSeeds, rate \in RateChoices :
        /\ ShortRun(sizes, n, size, e, d) \/ (seed = 1 /\ LongRun(sizes, n, size, e, d))
        /\ layer_sizes = sizes
        /\ weights = NeuralNetwork(sizes, seed).weights
        /\ biases = NeuralNetwork(sizes, seed).biases
        /\ velocity_w = NeuralNetwork(sizes, seed).velocity_w
        /\ velocity_b = NeuralNetwork(sizes, seed).velocity_b
        /\ training_data = Dataset(sizes, n)
        /\ supplied = Dataset(sizes, n)
        /\ epochs = e
        /\ mini_batch_size = size
        /\ initial_rate = rate
        /\ learning_rate = rate
        /\ decay = d
        /\ pc = "idle"
        /\ j = 0
        /\ mini_batches = <<>>
        /\ mb = 1
        /\ gd_calls = <<>>
        /\ gd_total = 0
        /\ shuffles = 0
        /\ decays = 0
        /\ stdout = <<>>
        /\ idx = 1
        /\ failure = NoFailure
        /\ last_call = [fn |-> "none", err |-> FALSE, a |-> <<>>, z |-> <<>>]

SetNet(net) ==
    /\ weights' = net.weights
    /\ biases' = net.biases
    /\ velocity_w' = net.velocity_w
    /\ velocity_b' = net.velocity_b

-----------------------------------------------------------------------------
(* Calls from outside main: the methods are public *)

\* the input vectors the calls are tried with
ProbeInputs ==
    {[k \in 1..layer_sizes[1] |-> Exact(v)] :
        v \in {-BigInput, -MidInput, 0, 1, MidInput, BigInput}}

CallFeedforward ==
    /\ pc \in {"idle", "exit"}
    /\ \E a \in ProbeInputs :
        LET r == feedforward(self, a)
        IN  /\ SetNet(r.net)
            /\ last_call' = [fn |-> "feedforward", err |-> r.err, a |-> r.a, z |-> r.z]
    /\ UNCHANGED <<layer_sizes, training_data, supplied, epochs, mini_batch_size,
                   initial_rate, learning_rate, decay, pc, j, mini_batches, mb,
                   gd_calls, gd_total, shuffles, decays, stdout, idx, failure>>

CallGradientDescent ==
    /\ pc \in {"idle", "exit"}
    /\ \E k \in 0..Len(training_data) :
        LET r == gradient_descent(self, SubSeq(training_data, 1, k), initial_rate, DefaultMu)
        IN  /\ SetNet(r.net)
            /\ last_call' = [fn |-> "gradient_descent", err |-> r.err, a |-> <<>>,
                             z |-> <<>>]
    /\ UNCHANGED <<layer_sizes, training_data, supplied, epochs, mini_batch_size,
                   initial_rate, learning_rate, decay, pc, j, mini_batches, mb,
                   gd_calls, gd_total, shuffles, decays, stdout, idx, failure>>

CallBackpropagation ==
    /\ pc \in {"idle", "exit"}
    /\ \E k \in DOMAIN training_data :
        LET r == backpropagation(self, training_data[k].x, training_data[k].y)
        IN  /\ SetNet(r.net)
            /\ last_call' = [fn |-> "backpropagation", err |-> r.err, a |-> <<>>,
                             z |-> <<>>]
    /\ UNCHANGED <<layer_sizes, training_data, supplied, epochs, mini_batch_size,
                   initial_rate, learning_rate, decay, pc, j, mini_batches, mb,
                   gd_calls, gd_total, shuffles, decays, stdout, idx, failure>>

-----------------------------------------------------------------------------
(* main and train *)

\* main calls nn.train(training_data, epochs, mini_batch_size, learning_rate,
\* decay): n = len(training_data), the loop is entered
CallTrain ==
    /\ pc = "idle"
    /\ pc' = "loop"
    /\ j' = 0
    /\ last_call' = [fn |-> "train", err |-> FALSE, a |-> <<>>, z |-> <<>>]
    /\ UNCHANGED <<layer_sizes, net_vars, training_data, supplied, epochs,
                   mini_batch_size, initial_rate, learning_rate, decay,
                   mini_batches, mb, gd_calls, gd_total, shuffles, decays, stdout,
                   idx, failure>>

\* an epoch begins: the list is shuffled in place and cut into mini-batches
Shuffle ==
    /\ pc = "loop"
    /\ j < epochs
    /\ \E t \in Shuffles(training_data) :
        /\ training_data' = t
        /\ mini_batches' = MiniBatches(t, Len(supplied), mini_batch_size)
    /\ mb' = 1
    /\ gd_calls' = <<>>
    /\ shuffles' = shuffles + 1
    /\ pc' = "batches"
    /\ UNCHANGED <<layer_sizes, net_vars, supplied, epochs, mini_batch_size,
                   initial_rate, learning_rate, decay, j, gd_total, decays, stdout,
                   idx, failure, last_call>>

\* self.gradient_descent(mini_batch, learning_rate): an expression statement,
\* the value returned is dropped
GradientStep ==
    /\ pc = "batches"
    /\ mb <= Len(mini_batches)
    /\ LET r == gradient_descent(self, mini_batches[mb], learning_rate, DefaultMu)
       IN  /\ SetNet(r.net)
           /\ failure' = IF r.err THEN "TypeError" ELSE failure
           /\ pc' = IF r.err THEN "raised" ELSE pc
    /\ gd_calls' = Append(gd_calls, [ids |-> [i \in DOMAIN mini_batches[mb] |->
                                                mini_batches[mb][i].id],
                                      eta |-> learning_rate, epoch |-> j])
    /\ gd_total' = gd_total + 1
    /\ mb' = mb + 1
    /\ UNCHANGED <<layer_sizes, training_data, supplied, epochs, mini_batch_size,
                   initial_rate, learning_rate, decay, j, mini_batches, shuffles,
                   decays, stdout, idx, last_call>>

\* the mini-batches are done: learning_rate *= decay
Decay ==
    /\ pc = "batches"
    /\ mb > Len(mini_batches)
    /\ learning_rate' = Decayed(learning_rate, decay)
    /\ decays' = decays + 1
    /\ pc' = "logcheck"
    /\ UNCHANGED <<layer_sizes, net_vars, training_data, supplied, epochs,
                   mini_batch_size, initial_rate, decay, j, mini_batches, mb,
                   gd_calls, gd_total, shuffles, stdout, idx, failure, last_call>>

\* if j % 100 == 0: the losses over training_data are computed and printed
LogLoss ==
    /\ pc = "logcheck"
    /\ LogsOn(j)
    /\ LET r == Losses(self, training_data, Len(training_data))
       IN  /\ SetNet(r.net)
           /\ failure' = IF r.err THEN "ValueError" ELSE failure
           /\ pc' = IF r.err THEN "raised" ELSE "loop"
           /\ stdout' = IF r.err THEN stdout
                        ELSE Append(stdout,
                                 [kind |-> "Epoch", j |-> j, x |-> <<>>, t |-> <<>>,
                                  out |-> <<r.sum>>, z |-> <<>>, count |-> r.count,
                                  calls |-> gd_total, decays |-> decays])
    /\ j' = j + 1
    /\ UNCHANGED <<layer_sizes, training_data, supplied, epochs, mini_batch_size,
                   initial_rate, learning_rate, decay, mini_batches, mb, gd_calls,
                   gd_total, shuffles, decays, idx, last_call>>

\* an epoch that is not logged ends
SkipLog ==
    /\ pc = "logcheck"
    /\ ~LogsOn(j)
    /\ j' = j + 1
    /\ pc' = "loop"
    /\ UNCHANGED <<layer_sizes, net_vars, training_data, supplied, epochs,
                   mini_batch_size, initial_rate, learning_rate, decay,
                   mini_batches, mb, gd_calls, gd_total, shuffles, decays, stdout,
                   idx, failure, last_call>>

\* range(epochs) is exhausted: train returns to main
TrainReturn ==
    /\ pc = "loop"
    /\ j >= epochs
    /\ pc' = "print"
    /\ idx' = 1
    /\ UNCHANGED <<layer_sizes, net_vars, training_data, supplied, epochs,
                   mini_batch_size, initial_rate, learning_rate, decay, j,
                   mini_batches, mb, gd_calls, gd_total, shuffles, decays, stdout,
                   failure, last_call>>

\* main's loop: for x, y in training_data: print(Input, Output, Target)
PrintExample ==
    /\ pc = "print"
    /\ idx <= Len(training_data)
    /\ LET r == feedforward(self, training_data[idx].x)
       IN  /\ SetNet(r.net)
           /\ failure' = IF r.err THEN "ValueError" ELSE failure
           /\ pc' = IF r.err THEN "raised" ELSE pc
           /\ stdout' = IF r.err THEN stdout
                        ELSE Append(stdout,
                                 [kind |-> "Input", j |-> training_data[idx].id,
                                  x |-> training_data[idx].x,
                                  t |-> training_data[idx].y,
                                  out |-> r.a, z |-> r.z, count |-> Len(r.a),
                                  calls |-> gd_total, decays |-> decays])
    /\ idx' = idx + 1
    /\ UNCHANGED <<layer_sizes, training_data, supplied, epochs, mini_batch_size,
                   initial_rate, learning_rate, decay, j, mini_batches, mb,
                   gd_calls, gd_total, shuffles, decays, last_call>>

\* main returns
MainExit ==
    /\ pc = "print"
    /\ idx > Len(training_data)
    /\ pc' = "exit"
    /\ UNCHANGED <<layer_sizes, net_vars, training_data, supplied, epochs,
                   mini_batch_size, initial_rate, learning_rate, decay, j,
                   mini_batches, mb, gd_calls, gd_total, shuffles, decays, stdout,
                   idx, failure, last_call>>

TrainNext == Shuffle \/ GradientStep \/ Decay \/ LogLoss \/ SkipLog \/ TrainReturn

Next ==
    \/ CallFeedforward
    \/ CallGradientDescent
    \/ CallBackpropagation
    \/ CallTrain
    \/ TrainNext
    \/ PrintExample
    \/ MainExit

Spec == Init /\ [][Next]_vars

\* train runs to its end once called: the interpreter keeps executing it.
\* (The smallest network: every data-set size, batch size and number of
\* epochs of Init.)
FairInit == Init /\ layer_sizes = <<1, 1>>

FairSpec == FairInit /\ [][Next]_vars /\ WF_vars(TrainNext)

-----------------------------------------------------------------------------
(* Properties *)

CeilDiv(a, b) == (a + b - 1) \div b

RECURSIVE FracPow(_, _)
FracPow(d, k) == IF k = 0 THEN <<1, 1>> ELSE FracMul(FracPow(d, k - 1), d)

AfterTrain == pc \in {"print", "exit"}

EpochLines == SelectSeq(stdout, LAMBDA ln : ln.kind = "Epoch")
InputLines == SelectSeq(stdout, LAMBDA ln : ln.kind = "Input")

BatchesPerEpoch == CeilDiv(Len(supplied), mini_batch_size)

\* the places an example object takes in the mini-batches
PlacesOf(e) ==
    {p \in (DOMAIN mini_batches) \X (1..Len(training_data)) :
        p[2] <= Len(mini_batches[p[1]]) /\ mini_batches[p[1]][p[2]] = e}

\* C1: once an epoch's mini-batches are built, every example of the shuffled
\* list is in exactly one place of exactly one mini-batch, and the
\* mini-batches hold nothing else.
C1_MiniBatchesCoverOnce ==
    pc = "batches" =>
        /\ \A e \in Range(training_data) : Cardinality(PlacesOf(e)) = 1
        /\ \A b \in DOMAIN mini_batches :
              /\ mini_batches[b] # <<>>
              /\ Range(mini_batches[b]) \subseteq Range(training_data)

\* a data set whose size is not a multiple of the batch size has been cut
C1_Witness ==
    /\ pc = "batches"
    /\ Len(training_data) = 3
    /\ mini_batch_size = 2
    /\ Len(mini_batches) = 2
    /\ Len(mini_batches[2]) = 1

C4_LossLines ==
    pc # "raised" =>
        /\ Len(EpochLines) = CeilDiv(j, LogEvery)
        /\ j <= epochs
        /\ \A i \in DOMAIN EpochLines :
              /\ EpochLines[i].j = (i - 1) * LogEvery
              /\ EpochLines[i].calls = (EpochLines[i].j + 1) * BatchesPerEpoch
              /\ EpochLines[i].decays = EpochLines[i].j + 1
              /\ EpochLines[i].count = Len(supplied) * layer_sizes[Len(layer_sizes)]

C4_Witness ==
    /\ pc = "exit"
    /\ epochs = 201
    /\ Len(EpochLines) = 3
    /\ EpochLines[3].j = 200

\* C5: a step that only calls feedforward (a call from outside, the loss
\* logging of train, the loop of main) leaves weights, biases and both
\* velocity buffers as they were.
\* The steps are told by the position: the epoch's log decision (LogLoss or
\* SkipLog), main's final loop (PrintExample), and, outside train and main, the
\* step that records a feedforward call (CallFeedforward).
C5_FeedforwardPure ==
    [][(\/ pc = "logcheck"
        \/ pc = "print" /\ idx' = idx + 1
        \/ pc \in {"idle", "exit"} /\ pc' = pc /\ last_call'.fn = "feedforward")
          => UNCHANGED net_vars]_vars

C5_Witness ==
    /\ pc = "exit"
    /\ last_call.fn = "feedforward"
    /\ ~last_call.err
    /\ Len(EpochLines) > 0
    /\ Len(InputLines) = 4

\* C6: there is one weight matrix and one bias vector per layer; the matrix of
\* layer l has as many columns as the layer before has outputs (the
\* network's input size for the first layer) and the bias vector of layer l
\* has as many entries as the matrix has rows, the layer's output size.
C6_Shapes ==
    /\ Len(weights) = Len(layer_sizes) - 1
    /\ Len(biases) = Len(weights)
    /\ \A l \in DOMAIN weights :
          /\ \A i \in DOMAIN weights[l] : Len(weights[l][i]) = Cols(weights[l])
          /\ Cols(weights[l]) = IF l = 1 THEN layer_sizes[1] ELSE Rows(weights[l - 1])
          /\ Rows(weights[l]) = layer_sizes[l + 1]
          /\ Len(biases[l]) = Rows(weights[l])

C6_Witness ==
    /\ pc = "exit"
    /\ layer_sizes = MainSizes
    /\ gd_total > 0
    /\ Len(InputLines) = 4
    /\ last_call.fn = "gradient_descent"

\* the results of the feedforward calls on record: [a, z]
Outputs ==
    {[a |-> InputLines[i].out, z |-> InputLines[i].z] : i \in DOMAIN InputLines}
    \cup (IF last_call.fn = "feedforward" /\ ~last_call.err
          THEN {[a |-> last_call.a, z |-> last_call.z]} ELSE {})

\* C7 as claimed: every output of feedforward has the declared dimension and
\* every element lies strictly between 0 and 1.  (An element counts as inside
\* unless it is certainly 0.0 or 1.0, so that a violation is one of the
\* program and not of the ranges of the model.)
C7_StrictlyInside ==
    \A o \in Outputs :
        /\ Len(o.a) = layer_sizes[Len(layer_sizes)]
        /\ \A i \in DOMAIN o.a : PossiblyInside(o.a[i])

\* C7 amended: every output of feedforward has the declared dimension, every
\* element lies in the closed range 0..1, and it lies strictly inside whenever
\* the last pre-activation is certainly within 1 - ExpOverflow .. ExpAbsorbed - 1.
C7_InsideUnlessSaturated ==
    \A o \in Outputs :
        /\ Len(o.a) = layer_sizes[Len(layer_sizes)]
        /\ \A i \in DOMAIN o.a :
              /\ CertainlyInUnit(o.a[i])
              /\ (o.z[i].lo >= 1 - ExpOverflow /\ o.z[i].hi <= ExpAbsorbed - 1)
                    => CertainlyInside(o.a[i])

C7_Witness ==
    /\ layer_sizes = <<1, 2>>
    /\ last_call.fn = "feedforward"
    /\ ~last_call.err
    /\ Len(last_call.a) = 2
    /\ \E i \in DOMAIN last_call.a :
          /\ last_call.z[i].hi <= 1 - ExpAbsorbed
          /\ last_call.z[i].lo >= 1 - ExpOverflow
          /\ CertainlyInside(last_call.a[i])

\* C8 as claimed: train does not complete normally.
C8_TrainFails == ~AfterTrain

\* C8 amended: no step of train or main raises; train returns to main.
C8_NoFailure == failure = NoFailure /\ pc # "raised"

C8_Witness ==
    /\ pc = "exit"
    /\ failure = NoFailure
    /\ layer_sizes = MainSizes
    /\ mini_batch_size = 4
    /\ gd_total = epochs
    /\ epochs > 0

\* train returns only after exactly `epochs` epochs, each of one shuffle
\* followed by exactly ceil(n / mini_batch_size) gradient_descent calls
C9_Counts ==
    /\ pc = "batches" => shuffles = j + 1 /\ Len(gd_calls) = mb - 1
    /\ pc = "logcheck" => shuffles = j + 1 /\ Len(gd_calls) = BatchesPerEpoch
    /\ pc = "loop" => shuffles = j /\ gd_total = j * BatchesPerEpoch
    /\ pc = "batches" => gd_total = j * BatchesPerEpoch + Len(gd_calls)
    /\ pc = "logcheck" => gd_total = (j + 1) * BatchesPerEpoch
    /\ AfterTrain =>
          /\ j = epochs
          /\ shuffles = epochs
          /\ gd_total = epochs * BatchesPerEpoch

\* C9: train, once called, always returns to main, and the counts above hold
\* in every state.
C9_TerminatesAfterEpochs == ((pc = "loop") ~> (pc = "print")) /\ []C9_Counts

C9_Witness ==
    /\ pc = "print"
    /\ epochs = 2
    /\ Len(supplied) = 3
    /\ mini_batch_size = 2
    /\ gd_total = 4
    /\ shuffles = 2

\* C10: the caller's list is always a rearrangement of the list supplied
\* (every supplied pair is in it once, unchanged, and nothing else is), and
\* main's final loop prints the examples in the order the list is left in.
C10_ShuffledInPlace ==
    /\ Len(training_data) = Len(supplied)
    /\ \A i \in DOMAIN supplied :
          Cardinality({k \in DOMAIN training_data : training_data[k] = supplied[i]}) = 1
    /\ pc \in {"print", "exit"} =>
          /\ Len(InputLines) = idx - 1
          /\ \A i \in DOMAIN InputLines :
                /\ InputLines[i].x = training_data[i].x
                /\ InputLines[i].t = training_data[i].y
    /\ pc = "exit" => Len(InputLines) = Len(supplied)

C10_Witness ==
    /\ pc = "exit"
    /\ layer_sizes = MainSizes
    /\ Len(InputLines) = 4
    /\ training_data # supplied
    /\ InputLines[1].x = supplied[4].x

-----------------------------------------------------------------------------
(* The contract of the two unimplemented methods (the design's sections on  *)
(* the backward pass and the update step), against which gradient_descent   *)
(* is compared.                                                             *)

\* two numbers may be the same double
MayBeEqual(a, b) ==
    IF a.lo = a.hi THEN MayEqual(a.lo, b)
    ELSE IF b.lo = b.hi THEN MayEqual(b.lo, a)
    ELSE IF a.open \/ b.open THEN a.lo < b.hi /\ b.lo < a.hi
    ELSE a.lo <= b.hi /\ b.lo <= a.hi

\* sum over i of w[i][k] * d[i]: the k-th entry of np.dot(w.transpose(), d)
RECURSIVE DotColumn(_, _, _, _)
DotColumn(w, d, k, i) ==
    IF i = 0 THEN Exact(0)
    ELSE VAdd(DotColumn(w, d, k, i - 1), VMul(w[i][k], d[i]))

\* the error of layer l for one example: at the last layer the cost derivative
\* times sigmoid_prime of the pre-activation, before it the error of the next
\* layer propagated through the transposed weights, times sigmoid_prime
RECURSIVE backprop_delta(_, _, _, _)
backprop_delta(net, x, y, l) ==
    LET f == forward(net, x, l)
        sp == [i \in DOMAIN f.z |-> sigmoid_prime(f.z[i])]
    IN  IF l = Len(net.weights)
        THEN LET c == cost_derivative(f.a, y).v
             IN  [i \in DOMAIN sp |-> VMul(c[i], sp[i])]
        ELSE LET d == backprop_delta(net, x, y, l + 1)
                 w == net.weights[l + 1]
             IN  [i \in DOMAIN sp |-> VMul(DotColumn(w, d, i, Len(d)), sp[i])]

\* the gradients of one example: nabla_b[l] is the error of layer l, nabla_w[l]
\* the error times the transposed activation of the layer before
backprop_contract(net, x, y) ==
    [nabla_b |-> [l \in DOMAIN net.weights |-> backprop_delta(net, x, y, l)],
     nabla_w |-> [l \in DOMAIN net.weights |->
                    [i \in DOMAIN net.weights[l] |->
                        [k \in DOMAIN net.weights[l][i] |->
                            VMul(backprop_delta(net, x, y, l)[i],
                                 forward(net, x, l - 1).a[k])]]]]

\* the gradients summed over the first n examples of a mini-batch
RECURSIVE GradientSum(_, _, _)
GradientSum(net, mini_batch, n) ==
    LET g == backprop_contract(net, mini_batch[n].x, mini_batch[n].y)
    IN  IF n = 1 THEN g
        ELSE LET r == GradientSum(net, mini_batch, n - 1)
             IN  [nabla_b |-> [l \in DOMAIN g.nabla_b |->
                                 [i \in DOMAIN g.nabla_b[l] |->
                                     VAdd(r.nabla_b[l][i], g.nabla_b[l][i])]],
                  nabla_w |-> [l \in DOMAIN g.nabla_w |->
                                 [i \in DOMAIN g.nabla_w[l] |->
                                     [k \in DOMAIN g.nabla_w[l][i] |->
                                         VAdd(r.nabla_w[l][i][k], g.nabla_w[l][i][k])]]]]

\* v2 may be mu * v - (eta / size) * g, and p2 may be p + v2
\* (both sides of the first equation times the denominators)
UpdatedAsContracted(v, v2, p, p2, g, eta, mu, size) ==
    /\ MayBeEqual(VScale(mu[2] * eta[2] * size, v2),
                  VSub(VScale(mu[1] * eta[2] * size, v), VScale(mu[2] * eta[1], g)))
    /\ MayBeEqual(p2, VAdd(p, v2))

\* the update step's contract between the network before (net) and after (net2)
UpdateContract(net, net2, mini_batch, eta, mu) ==
    LET g == GradientSum(net, mini_batch, Len(mini_batch))
        size == Len(mini_batch)
    IN  \A l \in DOMAIN net.weights :
            \A i \in DOMAIN net.weights[l] :
                /\ UpdatedAsContracted(net.velocity_b[l][i], net2.velocity_b[l][i],
                                       net.biases[l][i], net2.biases[l][i],
                                       g.nabla_b[l][i], eta, mu, size)
                /\ \A k \in DOMAIN net.weights[l][i] :
                      UpdatedAsContracted(net.velocity_w[l][i][k],
                                          net2.velocity_w[l][i][k],
                                          net.weights[l][i][k], net2.weights[l][i][k],
                                          g.nabla_w[l][i][k], eta, mu, size)

\* C2: every gradient_descent call of train on a (non-empty) mini-batch sets
\* each velocity buffer to mu * velocity - (eta / batch_size) * gradient_sum
\* and adds the new velocity to the weight or bias it belongs to.
C2_UpdateContract ==
    [][GradientStep =>
          UpdateContract(self,
                         [weights |-> weights', biases |-> biases',
                          velocity_b |-> velocity_b', velocity_w |-> velocity_w'],
                         mini_batches[mb], learning_rate, DefaultMu)]_vars

====
